---- MODULE Spec2Model ----
(***************************************************************************)
(* A model of CanvasLayer (src/src/leaflet-markers-canvas.ts): the marker  *)
(* registry, the two RBush indices, the icon cache with its queued draw    *)
(* requests, the redraw pass and the pointer-event dispatcher.             *)
(*                                                                         *)
(* Everything runs on one event-loop thread, so every handler is one       *)
(* atomic action; the only asynchronous steps are image.onload and         *)
(* image.onerror, which are actions of their own.                          *)
(***************************************************************************)
EXTENDS Integers, Sequences, FiniteSets, TLC

VARIABLES
  _map,                 \* this._map is set (the layer is attached to a map)
  viewport,             \* the host map's current view (map.getBounds())
  _layers,              \* this._layers: the ids (markers) it holds
  _markersTree,         \* this._markersTree: screen-space boxes
  _positionsTree,       \* this._positionsTree: geographic point boxes
  _icons,               \* this._icons: iconUrl -> cache entry
  image,                \* marker.image of every marker (an iconUrl or Undefined)
  _mouseOverMarker,     \* this._mouseOverMarker
  _previousCursorStyle, \* this._previousCursorStyle
  cursor,               \* map.getContainer().style.cursor
  hostCursor,           \* the cursor style the host page gave the container
  drawn,                \* the _drawImage calls made by the last handler, in order
  fired,                \* the marker.fire calls made by the last handler, in order
  loads,                \* per iconUrl, how many times `new Image()` got that src
  errorReports,         \* per iconUrl, how many times image.onerror reported it
  registered,           \* the markers added and not since removed or cleared
  lastOp,               \* the handler that ran last
  work                  \* the work done so far, in the units of MaxWork

vars == << _map, viewport, _layers, _markersTree, _positionsTree, _icons, image,
           _mouseOverMarker, _previousCursorStyle, cursor, hostCursor, drawn, fired, loads,
           errorReports, registered, lastOp, work >>

----------------------------------------------------------------------------
(* Bounds of the model *)

\* the longest array handed to addMarkers / removeMarkers
MaxBatch == 2

\* how much work a run is followed for: every call, event and image callback
\* is one unit, addMarkers and removeMarkers one unit per array element
MaxWork == 5

----------------------------------------------------------------------------
(* The markers the callers own, and the host map *)

Undefined == "undefined"
Null == "null"

Markers == {"m1", "m2", "m3", "m4", "m5"}
Urls == {"u1", "u2"}

\* an icon option (iconSize, iconAnchor) that was never set
NoPair == << >>

\* marker.options.icon and its options: m1 and m2 share an icon URL, m2's icon
\* is wide enough to lie over its neighbours', m4's icon has no anchor, m5 has
\* no icon at all (present is FALSE).
icon(m) ==
  CASE m = "m1" -> [present |-> TRUE, iconUrl |-> "u1", iconSize |-> <<2, 2>>, iconAnchor |-> <<1, 1>>]
    [] m = "m2" -> [present |-> TRUE, iconUrl |-> "u1", iconSize |-> <<6, 2>>, iconAnchor |-> <<3, 1>>]
    [] m = "m3" -> [present |-> TRUE, iconUrl |-> "u2", iconSize |-> <<2, 2>>, iconAnchor |-> <<1, 1>>]
    [] m = "m4" -> [present |-> TRUE, iconUrl |-> "u2", iconSize |-> <<2, 2>>, iconAnchor |-> NoPair]
    [] OTHER    -> [present |-> FALSE, iconUrl |-> Undefined, iconSize |-> NoPair, iconAnchor |-> NoPair]

\* marker.options.pane
pane(m) == "markerPane"

\* marker.getLatLng()
getLatLng(m) ==
  CASE m = "m1" -> [lat |-> 1, lng |-> 1]
    [] m = "m2" -> [lat |-> 1, lng |-> 2]
    [] m = "m3" -> [lat |-> 1, lng |-> 4]
    [] m = "m4" -> [lat |-> 1, lng |-> 1]
    [] OTHER    -> [lat |-> 1, lng |-> 2]

\* marker.listens(type)
listens(m, type) ==
  CASE m = "m1" -> TRUE
    [] m = "m2" -> type \in {"mouseover", "mouseout"}
    [] OTHER    -> type = "click"

\* the views the host map can show: one holds m1 and m2, the other m2 and m3
Viewports ==
  { [west |-> 0, south |-> 0, east |-> 3,  north |-> 2],
    [west |-> 2, south |-> 0, east |-> 6,  north |-> 2] }

InitialViewport == [west |-> 0, south |-> 0, east |-> 3, north |-> 2]

\* map.getBounds().contains(latLng)
contains(vp, latLng) ==
  /\ latLng.lat >= vp.south /\ latLng.lat <= vp.north
  /\ latLng.lng >= vp.west  /\ latLng.lng <= vp.east

\* map.latLngToContainerPoint(latLng): two pixels per degree, y grows downwards
latLngToContainerPoint(vp, latLng) ==
  [x |-> (latLng.lng - vp.west) * 2, y |-> (vp.north - latLng.lat) * 2]

\* the cursor style the host page has set on the map container
CursorStyles == {"grab"}

\* the container points of the pointer events the map delivers
ContainerPoints ==
  { [x |-> px, y |-> 2] : px \in {2, 3, 4} } \cup { [x |-> 2, y |-> 5] }

----------------------------------------------------------------------------
(* RBush, for an index that fits one leaf (at most 9 entries, which MaxWork *)
(* keeps it to): entries are kept and returned in insertion order.         *)

\* rbush: intersects(a, b)
intersects(a, b) ==
  /\ b.minX <= a.maxX /\ b.minY <= a.maxY
  /\ b.maxX >= a.minX /\ b.maxY >= a.minY

\* rbush: contains(a, b)
boxContains(a, b) ==
  /\ a.minX <= b.minX /\ a.minY <= b.minY
  /\ b.maxX <= a.maxX /\ b.maxY <= a.maxY

\* tree.search(bbox)
search(tree, bbox) == SelectSeq(tree, LAMBDA e : intersects(bbox, e))

\* tree.load(data)
load(tree, data) == tree \o data

\* the equality the code hands to tree.remove
sameLeafletId(a, b) == a.marker = b.marker

\* tree.remove(item, equalsFn): the first entry equal to item goes
remove(tree, item) ==
  LET hits == { i \in 1..Len(tree) :
                  boxContains(tree[i], item) /\ sameLeafletId(item, tree[i]) }
  IN  IF hits = {} THEN tree
      ELSE LET k == CHOOSE i \in hits : \A j \in hits : i <= j
           IN  SubSeq(tree, 1, k - 1) \o SubSeq(tree, k + 1, Len(tree))

\* how many entries of a tree refer to marker m
Entries(tree, m) == Cardinality({ i \in 1..Len(tree) : tree[i].marker = m })

positionBoxOf(m) ==
  LET latLng == getLatLng(m)
  IN  [minX |-> latLng.lng, minY |-> latLng.lat,
       maxX |-> latLng.lng, maxY |-> latLng.lat, marker |-> m]

markerBoxOf(m, p) ==
  LET iconAnchor == icon(m).iconAnchor
      iconSize   == icon(m).iconSize
  IN  [minX |-> p.x - iconAnchor[1],
       minY |-> p.y - iconAnchor[2],
       maxX |-> p.x + iconSize[1] - iconAnchor[1],
       maxY |-> p.y + iconSize[2] - iconAnchor[2],
       marker |-> m]

mapBoundsBox(vp) ==
  [minX |-> vp.west, minY |-> vp.south, maxX |-> vp.east, maxY |-> vp.north]

----------------------------------------------------------------------------
(* Drawing.  R is the part of the state a drawing pass reads and writes:    *)
(* [icons, image, drawn, loads, layers].                                    *)

\* the image object behind an icon URL has finished loading
complete(icons, url) == url \in DOMAIN icons /\ icons[url].isLoaded

\* this._icons[iconUrl]?.hasErrored
hasErrored(icons, url) == url \in DOMAIN icons /\ icons[url].hasErrored

\* _drawImage: one ctx.drawImage call with marker.image at (x, y)
_drawImage(R, m, p) ==
  [R EXCEPT !.drawn = Append(@, [marker |-> m, x |-> p.x, y |-> p.y,
                                 complete |-> complete(R.icons, R.image[m])])]

\* _drawMarker without the lookup of this._icons[iconUrl]: every marker that
\* has no image yet starts a load of its own
_drawMarkerNoCacheLookup(R, m, p) ==
  LET iconUrl == icon(m).iconUrl
  IN  IF R.image[m] # Undefined
      THEN IF hasErrored(R.icons, iconUrl) THEN R ELSE _drawImage(R, m, p)
      ELSE [R EXCEPT
              !.image[m] = iconUrl,
              !.loads[iconUrl] = @ + 1,
              !.icons = (iconUrl :> [isLoaded |-> FALSE, hasErrored |-> FALSE,
                                     elements |-> << [marker |-> m, x |-> p.x, y |-> p.y] >>])
                        @@ R.icons]

\* _drawMarker without the hasErrored test on a marker that already has an image
_drawMarkerNoErrorCheck(R, m, p) ==
  LET iconUrl == icon(m).iconUrl
  IN  IF R.image[m] # Undefined
      THEN _drawImage(R, m, p)
      ELSE IF iconUrl \in DOMAIN R.icons
      THEN IF hasErrored(R.icons, iconUrl) THEN R
           ELSE LET R1 == [R EXCEPT !.image[m] = iconUrl]
                IN  IF R.icons[iconUrl].isLoaded
                    THEN _drawImage(R1, m, p)
                    ELSE [R1 EXCEPT !.icons[iconUrl].elements =
                                      Append(@, [marker |-> m, x |-> p.x, y |-> p.y])]
      ELSE [R EXCEPT
              !.image[m] = iconUrl,
              !.loads[iconUrl] = @ + 1,
              !.icons = (iconUrl :> [isLoaded |-> FALSE, hasErrored |-> FALSE,
                                     elements |-> << [marker |-> m, x |-> p.x, y |-> p.y] >>])
                        @@ R.icons]

\* _drawMarker
_drawMarker(R, m, p) ==
  LET iconUrl == icon(m).iconUrl
  IN  IF R.image[m] # Undefined
      THEN IF hasErrored(R.icons, iconUrl) THEN R ELSE _drawImage(R, m, p)
      ELSE IF iconUrl \in DOMAIN R.icons
      THEN IF hasErrored(R.icons, iconUrl) THEN R
           ELSE LET R1 == [R EXCEPT !.image[m] = iconUrl]
                IN  IF R.icons[iconUrl].isLoaded
                    THEN _drawImage(R1, m, p)
                    ELSE [R1 EXCEPT !.icons[iconUrl].elements =
                                      Append(@, [marker |-> m, x |-> p.x, y |-> p.y])]
      ELSE [R EXCEPT
              !.image[m] = iconUrl,
              !.loads[iconUrl] = @ + 1,
              !.icons = (iconUrl :> [isLoaded |-> FALSE, hasErrored |-> FALSE,
                                     elements |-> << [marker |-> m, x |-> p.x, y |-> p.y] >>])
                        @@ R.icons]

----------------------------------------------------------------------------
(* redraw *)

\* the loop of redraw over the entries the position index returned: each
\* marker's screen box is collected and the marker is handed to _drawMarker
RECURSIVE redrawLoop(_, _, _, _)
redrawLoop(R, found, vp, boxes) ==
  IF found = << >> THEN [R |-> R, markers |-> boxes]
  ELSE LET m == Head(found).marker
           p == latLngToContainerPoint(vp, getLatLng(m))
       IN  redrawLoop(_drawMarker(R, m, p), Tail(found), vp,
                      Append(boxes, markerBoxOf(m, p)))

\* redraw(clear) on an attached layer: the drawing state it leaves and the
\* boxes that replace the screen index
redraw(R, positions, vp) ==
  redrawLoop([R EXCEPT !.drawn = << >>], search(positions, mapBoundsBox(vp)), vp, << >>)

----------------------------------------------------------------------------
(* addMarker, addMarkers *)

NoBox == [minX |-> 0, minY |-> 0, maxX |-> 0, maxY |-> 0, marker |-> Null]

Rejected(R) ==
  [R |-> R, markerBox |-> NoBox, positionBox |-> NoBox, isVisible |-> FALSE,
   added |-> FALSE, threw |-> FALSE]

\* addMarker testing the icon's anchor and size only after it has drawn and
\* registered the marker
addMarkerChecksLate(R, m, attached, vp) ==
  IF pane(m) # "markerPane" \/ ~icon(m).present THEN Rejected(R)
  ELSE IF ~attached THEN Rejected(R)
  ELSE LET latLng    == getLatLng(m)
           isVisible == contains(vp, latLng)
           p         == latLngToContainerPoint(vp, latLng)
           R1        == IF isVisible THEN _drawMarker(R, m, p) ELSE R
           R2        == [R1 EXCEPT !.layers = @ \cup {m}]
       IN  IF icon(m).iconAnchor = NoPair \/ icon(m).iconSize = NoPair
           THEN [Rejected(R2) EXCEPT !.threw = TRUE]
           ELSE [R |-> R2,
                 markerBox |-> markerBoxOf(m, p),
                 positionBox |-> positionBoxOf(m),
                 isVisible |-> isVisible,
                 added |-> TRUE, threw |-> FALSE]

\* addMarker(marker): what it returns, the state it leaves and whether it threw
addMarker(R, m, attached, vp) ==
  IF pane(m) # "markerPane" \/ ~icon(m).present THEN Rejected(R)
  ELSE IF ~attached THEN Rejected(R)
  ELSE LET latLng    == getLatLng(m)
           isVisible == contains(vp, latLng)
           p         == latLngToContainerPoint(vp, latLng)
       IN  IF icon(m).iconAnchor = NoPair \/ icon(m).iconSize = NoPair
           THEN [Rejected(R) EXCEPT !.threw = TRUE]
           ELSE LET R1 == IF isVisible THEN _drawMarker(R, m, p) ELSE R
                IN  [R |-> [R1 EXCEPT !.layers = @ \cup {m}],
                     markerBox |-> markerBoxOf(m, p),
                     positionBox |-> positionBoxOf(m),
                     isVisible |-> isVisible,
                     added |-> TRUE, threw |-> FALSE]

\* the loop of addMarkers: stops at the first marker addMarker throws on
RECURSIVE addMarkersLoop(_, _, _, _, _)
addMarkersLoop(acc, markers, attached, vp, addedSoFar) ==
  IF markers = << >> THEN acc @@ [threw |-> FALSE, added |-> addedSoFar]
  ELSE LET r == addMarker(acc.R, Head(markers), attached, vp)
       IN  IF r.threw THEN acc @@ [threw |-> TRUE, added |-> addedSoFar]
           ELSE addMarkersLoop(
                  [R |-> r.R,
                   markerBoxes |-> IF r.added /\ r.isVisible
                                   THEN Append(acc.markerBoxes, r.markerBox)
                                   ELSE acc.markerBoxes,
                   positionBoxes |-> IF r.added
                                     THEN Append(acc.positionBoxes, r.positionBox)
                                     ELSE acc.positionBoxes],
                  Tail(markers), attached, vp,
                  IF r.added THEN addedSoFar \cup {Head(markers)} ELSE addedSoFar)

----------------------------------------------------------------------------
(* _fire *)

\* the query box with the two coordinates of the point exchanged
pointBoxTransposed(pt) == [minX |-> pt.y, minY |-> pt.x, maxX |-> pt.y, maxY |-> pt.x]

\* the box _fire queries the screen index with
pointBox(pt) == [minX |-> pt.x, minY |-> pt.y, maxX |-> pt.x, maxY |-> pt.y]

\* the marker a pointer event at pt hits: the first result of the screen index
hitMarker(tree, pt) ==
  LET markers == search(tree, pointBox(pt))
  IN  IF Len(markers) > 0 THEN markers[1].marker ELSE Null

\* marker.fire(type), if the marker listens to it
fireIfListens(events, m, type) ==
  IF listens(m, type) THEN Append(events, [marker |-> m, type |-> type]) ELSE events

\* the hit branch firing mouseover on every move over a marker, hovered or not
mouseMoveHitRefires(H, marker) ==
  LET H1 == IF H.over # Null /\ H.over # marker
            THEN [H EXCEPT !.fired = fireIfListens(@, H.over, "mouseout")]
            ELSE H
      H2 == IF H1.over = Null
            THEN [H1 EXCEPT !.prev = H1.cursor, !.cursor = "pointer"]
            ELSE H1
  IN  [H2 EXCEPT !.over = marker, !.fired = fireIfListens(@, marker, "mouseover")]

\* the hit branch saving the cursor style on every change of the hovered marker
mouseMoveHitSavesOnChange(H, marker) ==
  LET H1 == IF H.over # Null /\ H.over # marker
            THEN [H EXCEPT !.fired = fireIfListens(@, H.over, "mouseout")]
            ELSE H
      H2 == IF H1.over # marker
            THEN [H1 EXCEPT !.prev = H1.cursor, !.cursor = "pointer"]
            ELSE H1
  IN  IF H2.over # marker
      THEN [H2 EXCEPT !.over = marker, !.fired = fireIfListens(@, marker, "mouseover")]
      ELSE H2

\* the mousemove branch of _fire on a hit.  H is the hover state it reads and
\* writes: [over, prev, cursor, fired]
mouseMoveHit(H, marker) ==
  LET H1 == IF H.over # Null /\ H.over # marker
            THEN [H EXCEPT !.fired = fireIfListens(@, H.over, "mouseout")]
            ELSE H
      H2 == IF H1.over = Null
            THEN [H1 EXCEPT !.prev = H1.cursor, !.cursor = "pointer"]
            ELSE H1
  IN  IF H2.over # marker
      THEN [H2 EXCEPT !.over = marker, !.fired = fireIfListens(@, marker, "mouseover")]
      ELSE H2

\* the branch of _fire when the pointer is over no marker
mouseMoveMiss(H) ==
  IF H.over # Null
  THEN [H EXCEPT !.cursor = H.prev,
                 !.fired = fireIfListens(@, H.over, "mouseout"),
                 !.over = Null]
  ELSE H

\* _fire running the hover branches on a click as well
_fireClickHovers(H, tree, type, pt) ==
  LET marker == hitMarker(tree, pt)
  IN  IF marker # Null
      THEN IF type = "click"
           THEN mouseMoveHit([H EXCEPT !.fired = fireIfListens(@, marker, "click")], marker)
           ELSE mouseMoveHit(H, marker)
      ELSE mouseMoveMiss(H)

\* _fire(event)
_fire(H, tree, type, pt) ==
  LET marker == hitMarker(tree, pt)
  IN  IF marker # Null
      THEN IF type = "click" THEN [H EXCEPT !.fired = fireIfListens(@, marker, "click")]
           ELSE mouseMoveHit(H, marker)
      ELSE IF type = "mousemove" THEN mouseMoveMiss(H) ELSE H

----------------------------------------------------------------------------
(* The state machine *)

Batches == UNION { [1..n -> Markers] : n \in 1..MaxBatch }

\* what is kept of the last handler: its name, the icon URL of an image callback,
\* how many redraw passes it ran, whether it cleared the canvas, whether it threw
Op(name, url, redraws) ==
  [op |-> name, url |-> url, redraws |-> redraws, cleared |-> redraws > 0,
   threw |-> FALSE]

Init ==
  /\ _map = FALSE
  /\ viewport = InitialViewport
  /\ _layers = {}
  /\ _markersTree = << >>
  /\ _positionsTree = << >>
  /\ _icons = << >>
  /\ image = [m \in Markers |-> Undefined]
  /\ _mouseOverMarker = Null
  /\ _previousCursorStyle = ""
  /\ hostCursor \in CursorStyles
  /\ cursor = hostCursor
  /\ drawn = << >>
  /\ fired = << >>
  /\ loads = [u \in Urls |-> 0]
  /\ errorReports = [u \in Urls |-> 0]
  /\ registered = {}
  /\ lastOp = Op("new", Undefined, 0)
  /\ work = 0

\* the drawing state before a handler runs
CurR == [icons |-> _icons, image |-> image, drawn |-> << >>, loads |-> loads,
         layers |-> _layers]

\* the drawing state a handler leaves
SetR(R) ==
  /\ _icons' = R.icons
  /\ image' = R.image
  /\ drawn' = R.drawn
  /\ loads' = R.loads
  /\ _layers' = R.layers

hoverVars == << _mouseOverMarker, _previousCursorStyle, cursor, hostCursor >>

\* a handler doing n units of work runs
Work(n) == work + n <= MaxWork /\ work' = work + n

Step == Work(1)

\* a call of a redraw that loads its boxes without clearing the screen index
ThenRedrawNoClear(R, positions, vp) ==
  IF _map
  THEN LET res == redraw(R, positions, vp)
       IN  SetR(res.R) /\ _markersTree' = load(_markersTree, res.markers)
  ELSE SetR(R) /\ _markersTree' = _markersTree

\* a call of redraw as the last statement of a handler, the position index
\* being `positions` by then
ThenRedraw(R, positions, vp) ==
  IF _map
  THEN LET res == redraw(R, positions, vp)
       IN  SetR(res.R) /\ _markersTree' = res.markers
  ELSE SetR(R) /\ _markersTree' = _markersTree

\* onAdd(map)
onAdd ==
  /\ Work(0)
  /\ ~_map
  /\ _map' = TRUE
  /\ drawn' = << >> /\ fired' = << >>
  /\ lastOp' = Op("onAdd", Undefined, 0)
  /\ UNCHANGED << viewport, _layers, _markersTree, _positionsTree, _icons, image,
                  hoverVars, loads, errorReports, registered >>

\* the map is panned, zoomed or resized; when it ends, moveend runs _reset
MoveEnd(v) ==
  /\ Step
  /\ v # viewport
  /\ viewport' = v
  /\ ThenRedraw(CurR, _positionsTree, v)
  /\ fired' = << >>
  /\ lastOp' = Op("_reset", Undefined, IF _map THEN 1 ELSE 0)
  /\ UNCHANGED << _map, _positionsTree, hoverVars, errorReports, registered >>

\* redraw(clear), called by the application
Redraw(clear) ==
  /\ Step
  /\ ThenRedraw(CurR, _positionsTree, viewport)
  /\ fired' = << >>
  /\ lastOp' = [Op("redraw", Undefined, IF _map THEN 1 ELSE 0)
                  EXCEPT !.cleared = clear /\ _map]
  /\ UNCHANGED << _map, viewport, _positionsTree, hoverVars, errorReports, registered >>

\* clear() without the reset of this._layers
ClearKeepsLayers ==
  /\ Step
  /\ _positionsTree' = << >>
  /\ IF _map
     THEN ThenRedraw(CurR, << >>, viewport)
     ELSE SetR(CurR) /\ _markersTree' = << >>
  /\ fired' = << >>
  /\ registered' = {}
  /\ lastOp' = Op("clear", Undefined, IF _map THEN 1 ELSE 0)
  /\ UNCHANGED << _map, viewport, hoverVars, errorReports >>

\* clear()
Clear ==
  /\ Step
  /\ _positionsTree' = << >>
  /\ IF _map
     THEN ThenRedraw([CurR EXCEPT !.layers = {}], << >>, viewport)
     ELSE SetR([CurR EXCEPT !.layers = {}]) /\ _markersTree' = << >>
  /\ fired' = << >>
  /\ registered' = {}
  /\ lastOp' = Op("clear", Undefined, IF _map THEN 1 ELSE 0)
  /\ UNCHANGED << _map, viewport, hoverVars, errorReports >>

\* the loop of removeMarkers (and the body of removeMarker)
RECURSIVE removeLoop(_, _)
removeLoop(tree, markers) ==
  IF markers = << >> THEN tree
  ELSE removeLoop(remove(tree, positionBoxOf(Head(markers))), Tail(markers))

anyVisible(markers, vp) ==
  \E i \in 1..Len(markers) : contains(vp, getLatLng(markers[i]))

Removal(name, markers) ==
  LET positions == IF _map THEN removeLoop(_positionsTree, markers) ELSE _positionsTree
      hasChanged == _map /\ anyVisible(markers, viewport)
  IN  /\ Work(Len(markers))
      /\ _positionsTree' = positions
      /\ IF hasChanged
         THEN ThenRedraw(CurR, positions, viewport)
         ELSE SetR(CurR) /\ _markersTree' = _markersTree
      /\ fired' = << >>
      /\ registered' = IF _map THEN registered \ { markers[i] : i \in 1..Len(markers) }
                       ELSE registered
      /\ lastOp' = Op(name, Undefined, IF hasChanged THEN 1 ELSE 0)
      /\ UNCHANGED << _map, viewport, hoverVars, errorReports >>

\* removeMarker(marker)
RemoveMarker(m) == Removal("removeMarker", << m >>)

\* removeMarkers(markers)
RemoveMarkers(markers) == Removal("removeMarkers", markers)

\* addMarker(marker), called by the application
AddMarker(m) ==
  LET r == addMarker(CurR, m, _map, viewport)
  IN  /\ Step
      /\ SetR(r.R)
      /\ fired' = << >>
      /\ registered' = IF r.added THEN registered \cup {m} ELSE registered
      /\ lastOp' = [Op("addMarker", Undefined, 0) EXCEPT !.threw = r.threw]
      /\ UNCHANGED << _map, viewport, _markersTree, _positionsTree, hoverVars,
                      errorReports >>

\* addMarkers(markers)
AddMarkers(markers) ==
  LET r == addMarkersLoop([R |-> CurR, markerBoxes |-> << >>, positionBoxes |-> << >>],
                          markers, _map, viewport, {})
  IN  /\ Work(Len(markers))
      /\ SetR(r.R)
      /\ _markersTree' = IF r.threw THEN _markersTree ELSE load(_markersTree, r.markerBoxes)
      /\ _positionsTree' = IF r.threw THEN _positionsTree
                           ELSE load(_positionsTree, r.positionBoxes)
      /\ fired' = << >>
      /\ registered' = registered \cup r.added
      /\ lastOp' = [Op("addMarkers", Undefined, 0) EXCEPT !.threw = r.threw]
      /\ UNCHANGED << _map, viewport, hoverVars, errorReports >>

\* an image is still loading: neither onload nor onerror has run
pending(icons, url) ==
  url \in DOMAIN icons /\ ~icons[url].isLoaded /\ ~icons[url].hasErrored

\* the onload loop drawing at the position captured when the request was queued
RECURSIVE flushAtCapturedPosition(_, _, _)
flushAtCapturedPosition(R, elements, vp) ==
  IF elements = << >> THEN R
  ELSE LET e == Head(elements)
       IN  flushAtCapturedPosition(_drawImage(R, e.marker, [x |-> e.x, y |-> e.y]),
                                   Tail(elements), vp)

\* the onload loop taking the newest request first
RECURSIVE flushNewestFirst(_, _, _)
flushNewestFirst(R, elements, vp) ==
  IF elements = << >> THEN R
  ELSE LET m == elements[Len(elements)].marker
       IN  flushNewestFirst(_drawImage(R, m, latLngToContainerPoint(vp, getLatLng(m))),
                            SubSeq(elements, 1, Len(elements) - 1), vp)

\* the onload loop passing over the markers that are no longer registered
RECURSIVE flushRegisteredOnly(_, _, _)
flushRegisteredOnly(R, elements, vp) ==
  IF elements = << >> THEN R
  ELSE LET m == Head(elements).marker
       IN  flushRegisteredOnly(
             IF m \in registered
             THEN _drawImage(R, m, latLngToContainerPoint(vp, getLatLng(m)))
             ELSE R,
             Tail(elements), vp)

\* the loop of image.onload over the queued elements
RECURSIVE flush(_, _, _)
flush(R, elements, vp) ==
  IF elements = << >> THEN R
  ELSE LET m == Head(elements).marker
       IN  flush(_drawImage(R, m, latLngToContainerPoint(vp, getLatLng(m))),
                 Tail(elements), vp)

\* image.onload of the image of iconUrl
ImageOnload(url) ==
  /\ Step
  /\ pending(_icons, url)
  /\ SetR(flush([CurR EXCEPT !.icons[url].isLoaded = TRUE], _icons[url].elements, viewport))
  /\ fired' = << >>
  /\ lastOp' = Op("onload", url, 0)
  /\ UNCHANGED << _map, viewport, _markersTree, _positionsTree, hoverVars,
                  errorReports, registered >>

\* image.onerror of the image of iconUrl
ImageOnerror(url) ==
  /\ Step
  /\ pending(_icons, url)
  /\ _icons' = [_icons EXCEPT ![url].hasErrored = TRUE]
  /\ errorReports' = [errorReports EXCEPT ![url] = @ + 1]
  /\ drawn' = << >> /\ fired' = << >>
  /\ lastOp' = Op("onerror", url, 0)
  /\ UNCHANGED << _map, viewport, _layers, _markersTree, _positionsTree, image,
                  hoverVars, loads, registered >>

\* the map delivers a click or a mousemove at container point pt
Fire(type, pt) ==
  LET H == _fire([over |-> _mouseOverMarker, prev |-> _previousCursorStyle,
                  cursor |-> cursor, fired |-> << >>], _markersTree, type, pt)
  IN  /\ Step
      /\ _map
      /\ _mouseOverMarker' = H.over
      /\ _previousCursorStyle' = H.prev
      /\ cursor' = H.cursor
      /\ fired' = H.fired
      /\ drawn' = << >>
      /\ lastOp' = Op(type, Undefined, 0)
      /\ UNCHANGED << _map, viewport, _layers, _markersTree, _positionsTree, _icons,
                      image, hostCursor, loads, errorReports, registered >>

Next ==
  \/ onAdd
  \/ \E v \in Viewports : MoveEnd(v)
  \/ \E clear \in BOOLEAN : Redraw(clear)
  \/ Clear
  \/ \E m \in Markers : RemoveMarker(m)
  \/ \E ms \in Batches : RemoveMarkers(ms)
  \/ \E m \in Markers : AddMarker(m)
  \/ \E ms \in Batches : AddMarkers(ms)
  \/ \E u \in Urls : ImageOnload(u)
  \/ \E u \in Urls : ImageOnerror(u)
  \/ \E type \in {"click", "mousemove"}, pt \in ContainerPoints : Fire(type, pt)

Spec == Init /\ [][Next]_vars

----------------------------------------------------------------------------
(* Properties.  Each is stated over the observable state: the indices, the *)
(* cache, and what the last handler drew (drawn) and fired (fired).        *)

InView(m) == contains(viewport, getLatLng(m))

\* C1: on an attached layer the position index holds exactly one entry per
\* registered marker (added and not since removed) and none for any other, so
\* its entry count equals the number of registered markers.
C1_OneEntryPerRegistered ==
  _map => /\ \A m \in Markers :
               Entries(_positionsTree, m) = IF m \in registered THEN 1 ELSE 0
          /\ Len(_positionsTree) = Cardinality(registered)

\* C2: when a handler has just run redraw, the screen index holds exactly one
\* entry for each registered marker inside the viewport and none for any
\* marker outside it.
C2_ScreenIndexIsTheViewport ==
  lastOp.redraws = 1 =>
    \A m \in Markers :
      Entries(_markersTree, m) = IF m \in registered /\ InView(m) THEN 1 ELSE 0

\* C3: no handler draws a marker whose image has not finished loading.
C3_NoDrawWhilePending ==
  \A i \in 1..Len(drawn) : drawn[i].complete

\* C4: at most one image load is ever started per icon URL.
C4_OneLoadPerUrl ==
  \A u \in Urls : loads[u] <= 1

\* C4 witness: two markers sharing an icon URL have both been requested, a
\* further redraw has run, and one load was started for the URL.
C4_Witness ==
  /\ image["m1"] = "u1" /\ image["m2"] = "u1"
  /\ lastOp.op = "redraw" /\ Len(_markersTree) >= 2
  /\ loads["u1"] = 1

Errored(icons, u) == u \in DOMAIN icons /\ icons[u].hasErrored

\* C5: once the load of an icon URL has failed it stays failed: no later
\* handler draws a marker using that URL, none starts a load of it, and the
\* failure has been reported exactly once (and not at all before it failed).
C5_ErroredIsSticky ==
  [][ \A u \in Urls :
        /\ ~Errored(_icons, u) => errorReports[u] = 0
        /\ Errored(_icons, u) =>
             /\ Errored(_icons', u) /\ ~_icons'[u].isLoaded
             /\ loads'[u] = loads[u]
             /\ errorReports[u] = 1 /\ errorReports'[u] = 1
             /\ \A i \in 1..Len(drawn') : icon(drawn'[i].marker).iconUrl # u
    ]_vars

\* C5 witness: after the load of u1 failed, m2 (always in view, never
\* requested before the failure) was added, and nothing was drawn for it.
C5_Witness ==
  /\ Errored(_icons, "u1")
  /\ lastOp.op \in {"addMarker", "addMarkers"}
  /\ "m2" \in registered /\ image["m2"] = Undefined
  /\ image["m1"] = "u1"
  /\ drawn = << >>

\* C6: image.onload draws every queued marker at the container point its
\* position projects to under the viewport current at that moment.
C6_FlushAtCurrentPosition ==
  lastOp.op = "onload" =>
    \A i \in 1..Len(drawn) :
      LET p == latLngToContainerPoint(viewport, getLatLng(drawn[i].marker))
      IN  drawn[i].x = p.x /\ drawn[i].y = p.y

\* C6 witness: onload drew a marker somewhere else than where its request was
\* queued, the viewport having changed in between.
C6_Witness ==
  /\ lastOp.op = "onload"
  /\ Len(drawn) >= 1
  /\ \E i \in 1..Len(drawn) : _icons[lastOp.url].elements[i].x # drawn[i].x

\* C7: a marker requested while its URL is pending is queued, once; and
\* image.onload draws the whole queue, each marker once, in the order queued.
C7_QueueFlushedInOrder ==
  /\ \A u \in DOMAIN _icons :
       LET q == _icons[u].elements
       IN  /\ \A i, j \in 1..Len(q) : q[i].marker = q[j].marker => i = j
           /\ \A m \in Markers :
                (image[m] = u /\ pending(_icons, u)) => \E i \in 1..Len(q) : q[i].marker = m
  /\ lastOp.op = "onload" =>
       LET q == _icons[lastOp.url].elements
       IN  /\ Len(drawn) = Len(q)
           /\ \A i \in 1..Len(q) : drawn[i].marker = q[i].marker /\ drawn[i].complete

\* C7 witness: onload flushed a queue of two markers.
C7_Witness ==
  /\ lastOp.op = "onload"
  /\ Len(drawn) = 2
  /\ drawn[1].marker # drawn[2].marker

\* C8: removeMarker on a registered marker leaves no position entry for it and
\* redraws exactly when the marker is in the viewport; removeMarkers leaves no
\* entry for any listed marker and redraws once exactly when one is in view.
C8_RemoveLeavesNoEntry ==
  [][ /\ \A m \in Markers :
           (m \in registered /\ RemoveMarker(m)) =>
             /\ Entries(_positionsTree', m) = 0
             /\ lastOp'.redraws = 1 <=> InView(m)
      /\ \A ms \in Batches :
           ((\A i \in 1..Len(ms) : ms[i] \in registered) /\ RemoveMarkers(ms)) =>
             /\ \A i \in 1..Len(ms) : Entries(_positionsTree', ms[i]) = 0
             /\ lastOp'.redraws = 1 <=> \E i \in 1..Len(ms) : InView(ms[i])
    ]_vars

Hoverable == { m \in Markers : listens(m, "mouseover") /\ listens(m, "mouseout") }

FiredOn(events, m, type) ==
  \E i \in 1..Len(events) : events[i] = [marker |-> m, type |-> type]

\* C9: a marker that listens gets mouseover exactly when it becomes the hover
\* target and mouseout exactly when it stops being it, so its events alternate
\* starting with mouseover and only the hover target has an open mouseover; a
\* move that leaves the hover target in place fires nothing; and the old
\* target's mouseout comes before the new target's mouseover.  (A handler that
\* fires nothing and leaves the hover target alone is the first disjunct.)
C9_HoverEventsAlternate ==
  [][ \/ fired' = << >> /\ _mouseOverMarker' = _mouseOverMarker
      \/ /\ \A m \in Hoverable :
              /\ FiredOn(fired', m, "mouseover")
                   <=> (_mouseOverMarker # m /\ _mouseOverMarker' = m)
              /\ FiredOn(fired', m, "mouseout")
                   <=> (_mouseOverMarker = m /\ _mouseOverMarker' # m)
              /\ \A i, j \in 1..Len(fired') :
                   (fired'[i].marker = m /\ fired'[j].marker = m) => i = j
         /\ (_mouseOverMarker' = _mouseOverMarker) => lastOp'.op = "click"
         /\ \A i, j \in 1..Len(fired') :
              (fired'[i].type = "mouseout" /\ fired'[j].type = "mouseover") => i < j
    ]_vars

\* C9 witness: the hover passed straight from m1 to m2.
C9_Witness ==
  /\ lastOp.op = "mousemove"
  /\ fired = << [marker |-> "m1", type |-> "mouseout"],
                [marker |-> "m2", type |-> "mouseover"] >>
  /\ _mouseOverMarker = "m2"

\* C10: while a marker is hovered the container's cursor is "pointer", and
\* once the hover has ended it is again the style it had before the hover.
C10_CursorRestored ==
  /\ _mouseOverMarker # Null => cursor = "pointer"
  /\ _mouseOverMarker = Null => cursor = hostCursor

\* C10 witness: a move off all markers ended a hover, and the container has
\* the host page's cursor style back.
C10_Witness ==
  /\ lastOp.op = "mousemove"
  /\ _mouseOverMarker = Null
  /\ Len(fired) = 1 /\ fired[1].type = "mouseout"
  /\ hostCursor = "grab" /\ cursor = "grab"

\* the pixel pt lies strictly inside / inside or on the edge of a screen box
StrictlyInside(pt, box) ==
  /\ box.minX < pt.x /\ pt.x < box.maxX
  /\ box.minY < pt.y /\ pt.y < box.maxY

Touches(pt, box) ==
  /\ box.minX <= pt.x /\ pt.x <= box.maxX
  /\ box.minY <= pt.y /\ pt.y <= box.maxY

\* C11 as claimed: a pixel strictly inside the screen box of a marker gives that
\* marker as the hit, whatever other boxes lie over the pixel, and a pixel
\* outside all boxes gives no hit.
C11_HitIsThatMarker ==
  \A pt \in ContainerPoints :
    /\ \A i \in 1..Len(_markersTree) :
         StrictlyInside(pt, _markersTree[i]) =>
           hitMarker(_markersTree, pt) = _markersTree[i].marker
    /\ (\A i \in 1..Len(_markersTree) : ~Touches(pt, _markersTree[i])) =>
         hitMarker(_markersTree, pt) = Null

\* C11 amended: a pixel strictly inside the screen box of a marker gives a hit,
\* the hit is a marker whose screen box holds the pixel (that marker itself
\* when no other box holds the pixel), and a pixel outside all boxes gives no
\* hit.
C11_HitIsAMarkerThere ==
  \A pt \in ContainerPoints :
    LET there == { _markersTree[i].marker :
                     i \in { j \in 1..Len(_markersTree) : Touches(pt, _markersTree[j]) } }
    IN  /\ \A i \in 1..Len(_markersTree) :
             StrictlyInside(pt, _markersTree[i]) => hitMarker(_markersTree, pt) \in there
        /\ there = {} => hitMarker(_markersTree, pt) = Null

\* C11 witness: the pointer moved to a pixel strictly inside the screen boxes
\* of both m1 and m2, and the hover went to one of them.
C11_Witness ==
  /\ lastOp.op = "mousemove"
  /\ _mouseOverMarker \in {"m1", "m2"}
  /\ \E pt \in ContainerPoints :
       /\ hitMarker(_markersTree, pt) = _mouseOverMarker
       /\ \E i, j \in 1..Len(_markersTree) :
            /\ _markersTree[i].marker = "m1" /\ StrictlyInside(pt, _markersTree[i])
            /\ _markersTree[j].marker = "m2" /\ StrictlyInside(pt, _markersTree[j])
       /\ \E q \in ContainerPoints : hitMarker(_markersTree, q) = Null

\* the markers addMarker must reject: no icon, or an icon without size or anchor
BadIcon ==
  { m \in Markers : \/ ~icon(m).present
                    \/ icon(m).iconSize = NoPair \/ icon(m).iconAnchor = NoPair }

Queued(m) ==
  \E u \in DOMAIN _icons :
    \E i \in 1..Len(_icons[u].elements) : _icons[u].elements[i].marker = m

\* C12: a marker without an icon, or whose icon lacks size or anchor, is never
\* taken in: it is not in getAllMarkers, has no entry in either index, was
\* given no image, has no draw request queued and is not drawn; and a call of
\* addMarker that threw drew nothing.
C12_BadIconRejected ==
  /\ \A m \in BadIcon :
       /\ m \notin _layers /\ m \notin registered
       /\ Entries(_positionsTree, m) = 0 /\ Entries(_markersTree, m) = 0
       /\ image[m] = Undefined /\ ~Queued(m)
       /\ \A i \in 1..Len(drawn) : drawn[i].marker # m
  /\ (lastOp.op = "addMarker" /\ lastOp.threw) => drawn = << >>

\* C12 witness: addMarker threw on m4 (the only marker it throws on), on a layer
\* holding other markers, and the icon URL of m4 was never requested.
C12_Witness ==
  /\ lastOp.op = "addMarker" /\ lastOp.threw
  /\ _layers # {}
  /\ "u2" \notin DOMAIN _icons /\ loads["u2"] = 0

\* C13: getAllMarkers() returns exactly the registered markers: every marker
\* added and not since removed or cleared, and no removed marker.
C13_GetAllMarkersIsRegistered ==
  _layers = registered

\* the screen boxes of the markers the position index holds inside viewport vp,
\* in the order the index returns them
BoxesOfView(positions, vp) ==
  LET found == search(positions, mapBoundsBox(vp))
  IN  [ i \in 1..Len(found) |->
          markerBoxOf(found[i].marker,
                      latLngToContainerPoint(vp, getLatLng(found[i].marker))) ]

C15_ClearEmptiesEverything ==
  (lastOp.op = "clear" /\ _map) =>
    /\ _layers = {} /\ registered = {}
    /\ _positionsTree = << >> /\ _markersTree = << >>
    /\ lastOp.redraws = 1 /\ lastOp.cleared
    /\ drawn = << >>

\* C15 witness: clear() ran while a marker was hovered and the load of its
\* icon was still pending.
C15_Witness ==
  /\ lastOp.op = "clear" /\ _map
  /\ _mouseOverMarker = "m1"
  /\ pending(_icons, "u1") /\ Len(_icons["u1"].elements) = 2
  /\ _layers = {}

\* a draw request for marker m is queued on icon URL u
QueuedOn(u, m) ==
  \E i \in 1..Len(_icons[u].elements) : _icons[u].elements[i].marker = m

\* C16: image.onload draws every marker queued on its URL also when the marker
\* has been removed (or cleared) since it was queued and has no position entry
\* any more: a pending load is not cancelled by a removal.
C16_RemovedMarkerStillDrawn ==
  lastOp.op = "onload" =>
    \A m \in Markers :
      (QueuedOn(lastOp.url, m) /\ m \notin registered) =>
        \E i \in 1..Len(drawn) :
          /\ drawn[i].marker = m
          /\ drawn[i].x = latLngToContainerPoint(viewport, getLatLng(m)).x

\* C16 witness: m1 and m2 were queued on u1, m1 was removed before the load
\* ended (m2 kept its position entry, m1 has none left in either index), and
\* image.onload of u1 drew both.
C16_Witness ==
  /\ lastOp.op = "onload" /\ lastOp.url = "u1"
  /\ "m1" \notin registered /\ Entries(_positionsTree, "m1") = 0
  /\ Entries(_markersTree, "m1") = 0
  /\ "m2" \in registered /\ Entries(_positionsTree, "m2") = 1
  /\ Len(drawn) = 2 /\ drawn[1].marker = "m1" /\ drawn[2].marker = "m2"

\* C17: a click fires click on the marker the screen index returns for the
\* pixel exactly when there is one and it listens for click, fires nothing
\* else, and leaves the hover target, the cursor style and the saved cursor
\* style as they were.
C17_ClickOnlyClicks ==
  [][ lastOp'.op = "click" =>
        /\ _mouseOverMarker' = _mouseOverMarker
        /\ cursor' = cursor
        /\ _previousCursorStyle' = _previousCursorStyle
        /\ \A i \in 1..Len(fired') : fired'[i].type = "click"
        /\ \A pt \in ContainerPoints :
             Fire("click", pt) =>
               LET hit == hitMarker(_markersTree, pt)
               IN  fired' = IF hit # Null /\ listens(hit, "click")
                            THEN << [marker |-> hit, type |-> "click"] >>
                            ELSE << >>
    ]_vars

\* C17 witness: with m2 hovered, a click hit m1, which got its click event, and
\* m2 is still the hover target.
C17_Witness ==
  /\ lastOp.op = "click"
  /\ fired = << [marker |-> "m1", type |-> "click"] >>
  /\ _mouseOverMarker = "m2" /\ cursor = "pointer"

\* C18: addMarker(M) leaves the registry, the icon cache, the position index
\* and the screen index as addMarkers([M]) would have left them from the same
\* state.
C18_AddMarkerIsAddMarkersOfOne ==
  [][ \A m \in Markers :
        AddMarker(m) =>
          LET b == addMarkersLoop([R |-> CurR, markerBoxes |-> << >>,
                                   positionBoxes |-> << >>],
                                  << m >>, _map, viewport, {})
          IN  /\ _layers' = b.R.layers /\ _icons' = b.R.icons /\ image' = b.R.image
              /\ _positionsTree' = IF b.threw THEN _positionsTree
                                   ELSE load(_positionsTree, b.positionBoxes)
              /\ _markersTree' = IF b.threw THEN _markersTree
                                 ELSE load(_markersTree, b.markerBoxes)
    ]_vars

\* C19: pointer events fire click, mouseover and mouseout only on registered
\* markers: a marker that was removed or cleared and not added again gets no
\* event, being neither a screen-index hit nor the retained hover target.
C19_NoEventOnRemovedMarker ==
  \A i \in 1..Len(fired) : fired[i].marker \in registered

\* C20: when addMarkers throws on a marker of its array, every marker is
\* either fully added by the call (in getAllMarkers and with one position
\* entry more than before) or left as it was (registry, image, position
\* entries unchanged, nothing drawn or queued for it by the call).
C20_AddMarkersAllOrNothing ==
  [][ (lastOp'.op = "addMarkers" /\ lastOp'.threw) =>
        \A m \in Markers :
          \/ /\ m \in _layers'
             /\ Entries(_positionsTree', m) = Entries(_positionsTree, m) + 1
          \/ /\ (m \in _layers') = (m \in _layers)
             /\ image'[m] = image[m]
             /\ Entries(_positionsTree', m) = Entries(_positionsTree, m)
             /\ \A i \in 1..Len(drawn') : drawn'[i].marker # m
    ]_vars

====
